---- MODULE Spec2Model ----
(***************************************************************************)
(* Model of backend/app.py of the e-waste chatbot: the lazily loaded       *)
(* assets (load_assets), the /analyze classification decision, and the     *)
(* keyword cascade of generate_chat_reply behind /chat.                    *)
(*                                                                         *)
(* Text is modelled at character level: a Python str that is searched      *)
(* with `in` is a sequence of one-character strings, so that substring     *)
(* matching, strip() and lower() are computed as Python computes them.     *)
(* Text that is only produced (reply sentences) is a sequence of           *)
(* fragments; string concatenation is sequence concatenation.              *)
(***************************************************************************)
EXTENDS Integers, Sequences, FiniteSets, TLC

(* ------------------------------------------------------------------ *)
(* Bounds of the model                                                  *)
(* ------------------------------------------------------------------ *)
\* number of request-handling threads of the (threaded) Flask server
NumThreads == 2
\* longest generated chat message, in vocabulary words
MaxWords == 2
\* number of classes the classifier scores (length of preds)
NumClasses == 4

Threads == 1..NumThreads

(* ------------------------------------------------------------------ *)
(* Python values                                                        *)
(* ------------------------------------------------------------------ *)
\* Python's None where a str is expected (request fields)
None == "<None>"
\* a global that holds None; a loaded asset is a reference # Null
Null == 0
\* bool(x) for a str-or-None value
Truthy(x) == x # None /\ x # ""
\* dict.get(key, default)
Get(d, k, default) == IF k \in DOMAIN d THEN d[k] ELSE default

(* ------------------------------------------------------------------ *)
(* str operations used by chat() and generate_chat_reply                *)
(* ------------------------------------------------------------------ *)
UpperAlpha == <<"A","B","C","D","E","F","G","H","I","J","K","L","M",
                "N","O","P","Q","R","S","T","U","V","W","X","Y","Z">>
LowerAlpha == <<"a","b","c","d","e","f","g","h","i","j","k","l","m",
                "n","o","p","q","r","s","t","u","v","w","x","y","z">>

LowerChar(c) ==
  IF \E i \in 1..26 : UpperAlpha[i] = c
  THEN LowerAlpha[CHOOSE i \in 1..26 : UpperAlpha[i] = c]
  ELSE c

\* str.lower()
Lower(s) == [i \in 1..Len(s) |-> LowerChar(s[i])]

IsSpace(c) == c = " "

\* str.strip(): leading and trailing whitespace removed
RECURSIVE LStrip(_)
LStrip(s) == IF s # <<>> /\ IsSpace(Head(s)) THEN LStrip(Tail(s)) ELSE s

RECURSIVE RStrip(_)
RStrip(s) ==
  IF s # <<>> /\ IsSpace(s[Len(s)]) THEN RStrip(SubSeq(s, 1, Len(s) - 1)) ELSE s

Strip(s) == RStrip(LStrip(s))

\* `k in m` for two str: k occurs in m as a contiguous substring
Contains(m, k) ==
  \E i \in 1..(Len(m) - Len(k) + 1) : SubSeq(m, i, i + Len(k) - 1) = k

\* any(word in msg for word in words)
AnyIn(msg, words) == \E j \in 1..Len(words) : Contains(msg, words[j])

(* ------------------------------------------------------------------ *)
(* Keyword lists of generate_chat_reply                                 *)
(* ------------------------------------------------------------------ *)
GreetingWords ==
  << <<"h","e","l","l","o">>, <<"h","i">>, <<"h","i","!">>,
     <<"h","e","y">>, <<"g","o","o","d"," ","m","o","r","n","i","n","g">>, <<"g","o","o","d"," ","a","f","t","e","r","n","o","o","n">>,
     <<"g","o","o","d"," ","e","v","e","n","i","n","g">> >>

ThanksWords ==
  << <<"t","h","a","n","k">>, <<"t","h","a","n","k","s">>, <<"t","h","a","n","k"," ","y","o","u">>,
     <<"t","n","x">>, <<"t","h","x">>, <<"b","y","e">>,
     <<"g","o","o","d","b","y","e">> >>

IntroPhrases ==
  << <<"w","h","o"," ","a","r","e"," ","y","o","u">>, <<"w","h","a","t"," ","c","a","n"," ","y","o","u"," ","d","o">>, <<"w","h","o"," ","r"," ","u">> >>

irrelevant_keywords ==
  << <<"c","r","i","c","k","e","t">>, <<"f","o","o","t","b","a","l","l">>, <<"m","o","v","i","e">>,
     <<"a","c","t","o","r">>, <<"a","c","t","r","e","s","s">>, <<"p","o","l","i","t","i","c","s">>,
     <<"s","o","n","g">>, <<"s","t","o","r","y">>, <<"m","a","t","h">>,
     <<"s","c","i","e","n","c","e">>, <<"c","h","e","m","i","s","t","r","y">>, <<"p","h","y","s","i","c","s">>,
     <<"c","o","d","i","n","g">>, <<"p","y","t","h","o","n">>, <<"j","a","v","a">>,
     <<"f","o","o","d">>, <<"r","e","c","i","p","e">>, <<"l","o","v","e">>,
     <<"r","e","l","a","t","i","o","n","s","h","i","p">>, <<"w","e","a","t","h","e","r">>, <<"n","e","w","s">> >>

DangerWords ==
  << <<"d","a","n","g","e","r","o","u","s">>, <<"h","a","r","m","f","u","l">>, <<"b","a","d">> >>

TrashWords ==
  << <<"d","u","s","t","b","i","n">>, <<"t","r","a","s","h">>, <<"g","a","r","b","a","g","e">>,
     <<"n","o","r","m","a","l"," ","b","i","n">>, <<"n","o","r","m","a","l"," ","d","u","s","t","b","i","n">> >>

CentrePhrases ==
  << <<"r","e","c","y","c","l","i","n","g"," ","c","e","n","t","r","e">>, <<"r","e","c","y","c","l","e"," ","c","e","n","t","e","r">>, <<"w","h","e","r","e"," ","t","o"," ","g","i","v","e">>,
     <<"w","h","e","r","e"," ","c","a","n"," ","i"," ","g","i","v","e">> >>

DisposeWords ==
  << <<"h","o","w">>, <<"d","i","s","p","o","s","e">>, <<"t","h","r","o","w">>,
     <<"r","e","c","y","c","l","e">>, <<"g","e","t"," ","r","i","d">>, <<"w","h","a","t"," ","s","h","o","u","l","d"," ","i"," ","d","o">> >>

SafetyWords ==
  << <<"s","a","f","e">>, <<"h","a","r","m","f","u","l">>, <<"d","a","n","g","e","r","o","u","s">>,
     <<"r","i","s","k">>, <<"t","o","x","i","c">> >>

WhatIsThisPhrases ==
  << <<"w","h","a","t"," ","i","s"," ","t","h","i","s">>, <<"w","h","a","t"," ","i","t","e","m">>, <<"w","h","a","t"," ","p","r","o","d","u","c","t">> >>

RelatedWords ==
  << <<"w","a","s","t","e">>, <<"e","-","w","a","s","t","e">>, <<"e","l","e","c","t","r","o","n","i","c">>,
     <<"b","a","t","t","e","r","y">>, <<"m","o","b","i","l","e">>, <<"l","a","p","t","o","p">>,
     <<"t","v">>, <<"t","e","l","e","v","i","s","i","o","n">>, <<"p","r","i","n","t","e","r">>,
     <<"m","i","c","r","o","w","a","v","e">>, <<"w","a","s","h","i","n","g"," ","m","a","c","h","i","n","e">>, <<"p","c","b">> >>

kw_what_is_ewaste == <<"w","h","a","t"," ","i","s"," ","e","-","w","a","s","t","e">>

kw_what == <<"w","h","a","t">>

kw_e_waste_spaced == <<"e"," ","w","a","s","t","e">>

kw_why == <<"w","h","y">>

kw_ewaste == <<"e","-","w","a","s","t","e">>

kw_examples == <<"e","x","a","m","p","l","e","s"," ","o","f"," ","e","-","w","a","s","t","e">>

kw_ewaste_items == <<"e","-","w","a","s","t","e"," ","i","t","e","m","s">>

kw_types == <<"t","y","p","e","s"," ","o","f"," ","e","-","w","a","s","t","e">>

(* ------------------------------------------------------------------ *)
(* Asset files.  Their contents are data, not code: the rules follow    *)
(* the DisposalRule shape (display_name, category, disposal_steps,      *)
(* hazards, tips) and include the battery rule used as the example.     *)
(* ------------------------------------------------------------------ *)
\* contents of data/disposal_rules.json as loaded by json.load
disposal_rules_json ==
  [ battery |-> [ display_name   |-> "Battery",
                  category       |-> "Hazardous e-waste",
                  disposal_steps |-> <<"Do not incinerate", "Take to collection point">>,
                  hazards        |-> "Contains lead",
                  tips           |-> "" ],
    mobile  |-> [ display_name   |-> "Mobile phone",
                  category       |-> "Small IT equipment",
                  disposal_steps |-> <<"Back up your data", "Erase the phone",
                                       "Remove the SIM card", "Give it to a recycler">>,
                  hazards        |-> "",
                  tips           |-> "Consider donating a working phone" ],
    cable   |-> [ display_name   |-> "Cable",
                  category       |-> "Accessories",
                  disposal_steps |-> <<>>,
                  hazards        |-> "",
                  tips           |-> "" ] ]

\* contents of model/class_indices.json: index (as a str) -> class label.
\* "mouse" has no disposal rule; index 3 and above are missing from the file.
class_indices_json ==
  ("0" :> "battery") @@ ("1" :> "mobile") @@ ("2" :> "mouse")

\* an empty dict
EmptyDict == [k \in {} |-> ""]

\* the dict a reference held by _disposal_rules points to
RulesOf(ref) == IF ref = Null THEN EmptyDict ELSE disposal_rules_json

(* ------------------------------------------------------------------ *)
(* Replies of generate_chat_reply (emoji left out of the text)          *)
(* ------------------------------------------------------------------ *)
GreetingReply(last_name) ==
  IF Truthy(last_name)
  THEN << "Hello! I recently detected <b>", last_name,
          "</b>. You can ask me how to dispose it safely or any e-waste question." >>
  ELSE << "Hello! I am your e-waste assistant. You can upload an image of an electronic item and ask me how to dispose it safely." >>

ThanksReply ==
  << "You're welcome! If you have more questions about e-waste or another item, just ask." >>

IntroReply ==
  << "I am an e-waste assistant chatbot. I can:<br>- Identify many electronic items from an image (like battery, mobile, printer, TV, etc.)<br>- Tell you how to dispose them safely<br>- Explain why e-waste is dangerous<br>- Help you find nearby recycling centres using Google Maps." >>

IrrelevantReply ==
  << "Sorry, I'm just an e-waste chatbot.<br>I can help you with identifying electronics and teaching you how to dispose them safely.<br><br>For other questions, you can contact my elder brother <b>ChatGPT</b> - he knows everything!" >>

WhatIsEwasteReply ==
  << "E-waste (electronic waste) is any discarded electrical or electronic item, such as mobiles, laptops, TVs, batteries, chargers, printers, and so on. These items contain metals, plastics and chemicals that can pollute soil and water and can harm human health if they are dumped or burnt instead of being recycled properly." >>

HazardReply ==
  << "E-waste is dangerous because it often contains hazardous substances like lead, mercury, cadmium and brominated flame retardants. If e-waste is thrown in normal dustbins, dumped or burnt, these substances can leak into the air, soil and water. This can cause health problems (like nerve damage and cancers) and long-term environmental damage." >>

DustbinReply ==
  << "Electronic items should not be thrown in the normal dustbin. They contain metals, chemicals and sometimes batteries that can leak or catch fire. Instead, always hand over e-waste to an authorised e-waste collection centre or recycler so that useful materials can be recovered safely." >>

ExamplesReply ==
  << "Common examples of e-waste include:<br>- Mobile phones, tablets, laptops, computers<br>- Keyboards, mouse, chargers, cables, earphones<br>- Televisions, printers, scanners, media players<br>- Microwaves, washing machines and other appliances with electronics<br>- Batteries and circuit boards (PCBs)<br>All of these should be sent to e-waste recyclers instead of normal dustbins." >>

CentreReply ==
  << "You can use the 'Find nearest recycling centre' link I provide after analyzing an image. It opens Google Maps with nearby e-waste recycling or collection centres. You can also search in Google Maps for 'e-waste recycling centre' or 'battery recycling' in your city." >>

RelatedReply ==
  << "I may not fully understand the exact question, but I can help with e-waste disposal. Try asking things like:<br>- How to dispose this item?<br>- Is it safe to throw this in the dustbin?<br>- Why is e-waste dangerous?<br>Also, you can upload an image if you want me to detect a specific product." >>

FallbackReply ==
  << "Sorry, I am mainly designed to talk about e-waste and electronic items. Please upload an image of an electronic product (like a battery, mobile, printer, TV, etc.) and then ask me how to dispose it safely. For other kinds of questions, you can ask my elder brother <b>ChatGPT</b>." >>

\* for s in steps: response += f"<li>{s}</li>"
RECURSIVE ListItems(_)
ListItems(steps) ==
  IF steps = <<>> THEN <<>>
  ELSE << "<li>", Head(steps), "</li>" >> \o ListItems(Tail(steps))

\* steps[:3]
FirstThree(steps) == SubSeq(steps, 1, IF Len(steps) < 3 THEN Len(steps) ELSE 3)

\* the "how to dispose" reply of the context branch
DisposeReply(name, steps, hazards, tips) ==
  << "For <b>", name, "</b>, you should dispose it as follows:<br><ul>" >>
  \o ListItems(steps)
  \o << "</ul>" >>
  \o (IF hazards # "" THEN << "<br><b>Hazards:</b> ", hazards >> ELSE <<>>)
  \o (IF tips # "" THEN << "<br><b>Tips:</b> ", tips >> ELSE <<>>)

\* the "is it safe" reply of the context branch
SafetyReply(name, hazards) ==
  << "<b>", name, "</b> is considered e-waste. " >>
  \o (IF hazards # "" THEN << "Main hazards: ", hazards, " " >> ELSE <<>>)
  \o << "So please do not throw it in normal dustbin. Use an authorised e-waste centre." >>

\* the "what is this" reply of the context branch
WhatIsThisReply(name, rules) ==
  << "This item was detected as <b>", name,
     "</b>, which belongs to the category: ", Get(rules, "category", "E-waste"), "." >>

\* the generic reply of the context branch
SummaryReply(name, steps) ==
  << "You are asking about <b>", name, "</b>. " >>
  \o (IF steps # <<>>
      THEN << "Here is a short summary of how to dispose it:<br><ul>" >>
           \o ListItems(FirstThree(steps)) \o << "</ul>" >>
      ELSE << "It should be treated as e-waste and handed over to an authorised recycler." >>)

(* ------------------------------------------------------------------ *)
(* generate_chat_reply: the conditions of its if-statements, on the     *)
(* lower-cased message                                                  *)
(* ------------------------------------------------------------------ *)
\* 1) Greetings
IsGreeting(msg) == AnyIn(msg, GreetingWords)
\* 2) Thanks / bye
IsThanks(msg) == AnyIn(msg, ThanksWords)
\* 3) Who are you / what can you do?
IsIntro(msg) == AnyIn(msg, IntroPhrases)
\* 4) Completely irrelevant / off-topic questions
IsIrrelevant(msg) == AnyIn(msg, irrelevant_keywords)
\* 5) General: what is e-waste?
IsWhatIsEwaste(msg) ==
  Contains(msg, kw_what_is_ewaste)
  \/ (Contains(msg, kw_what) /\ Contains(msg, kw_e_waste_spaced))
\* IsHazardQuestion with the e-waste test of the second disjunct left out
IsHazardQuestion_danger_alone(msg) ==
  (Contains(msg, kw_why) /\ Contains(msg, kw_ewaste))
  \/ AnyIn(msg, DangerWords)

\* 6) Why is e-waste dangerous / bad / harmful?
IsHazardQuestion(msg) ==
  (Contains(msg, kw_why) /\ Contains(msg, kw_ewaste))
  \/ (Contains(msg, kw_ewaste) /\ AnyIn(msg, DangerWords))
\* 7) Why not throw in dustbin / normal garbage?
IsDustbin(msg) == AnyIn(msg, TrashWords)
\* 8) What items count as e-waste / examples
IsExamples(msg) ==
  Contains(msg, kw_examples)
  \/ (Contains(msg, kw_what) /\ Contains(msg, kw_ewaste_items))
  \/ Contains(msg, kw_types)
\* 9) How to find recycling centres?
IsCentre(msg) == AnyIn(msg, CentrePhrases)
\* 10) `last_class and _disposal_rules and last_class in _disposal_rules`
HasContext(last_class, store) ==
  Truthy(last_class) /\ DOMAIN store # {} /\ last_class \in DOMAIN store
\* 11) something kind of related but not very clear
IsRelated(msg) == AnyIn(msg, RelatedWords)

\* the body of branch 10, rules being _disposal_rules[last_class]
ContextReply(msg, last_class, last_name, rules) ==
  LET name    == IF Truthy(last_name) THEN last_name
                 ELSE Get(rules, "display_name", last_class)
      steps   == Get(rules, "disposal_steps", <<>>)
      hazards == Get(rules, "hazards", "")
      tips    == Get(rules, "tips", "")
  IN  IF AnyIn(msg, DisposeWords) THEN DisposeReply(name, steps, hazards, tips)
      ELSE IF AnyIn(msg, SafetyWords) THEN SafetyReply(name, hazards)
      ELSE IF AnyIn(msg, WhatIsThisPhrases) THEN WhatIsThisReply(name, rules)
      ELSE SummaryReply(name, steps)

\* ContextOrFallback with the loosely-related test moved before the context test
ContextOrFallback_related_first(msg, last_class, last_name, store) ==
  IF IsRelated(msg) THEN RelatedReply
  ELSE IF HasContext(last_class, store)
  THEN ContextReply(msg, last_class, last_name, store[last_class])
  ELSE FallbackReply

\* ContextOrFallback looking the rule up as analyze does, with .get(last_class, {}),
\* for any non-empty last_class
ContextOrFallback_default_rules(msg, last_class, last_name, store) ==
  IF Truthy(last_class) /\ DOMAIN store # {}
  THEN ContextReply(msg, last_class, last_name, Get(store, last_class, EmptyDict))
  ELSE IF IsRelated(msg) THEN RelatedReply
  ELSE FallbackReply

\* branches 10 to 12: the remembered item, then the two fallbacks
ContextOrFallback(msg, last_class, last_name, store) ==
  IF HasContext(last_class, store)
  THEN ContextReply(msg, last_class, last_name, store[last_class])
  ELSE IF IsRelated(msg) THEN RelatedReply
  ELSE FallbackReply

\* generate_chat_reply with the off-topic test placed after the context branch
generate_chat_reply_context_first(user_message, last_class, last_name, store) ==
  LET msg == Lower(Strip(user_message))
  IN  IF IsGreeting(msg) THEN GreetingReply(last_name)
      ELSE IF IsThanks(msg) THEN ThanksReply
      ELSE IF IsIntro(msg) THEN IntroReply
      ELSE IF IsWhatIsEwaste(msg) THEN WhatIsEwasteReply
      ELSE IF IsHazardQuestion(msg) THEN HazardReply
      ELSE IF IsDustbin(msg) THEN DustbinReply
      ELSE IF IsExamples(msg) THEN ExamplesReply
      ELSE IF IsCentre(msg) THEN CentreReply
      ELSE IF HasContext(last_class, store)
           THEN ContextReply(msg, last_class, last_name, store[last_class])
      ELSE IF IsIrrelevant(msg) THEN IrrelevantReply
      ELSE IF IsRelated(msg) THEN RelatedReply
      ELSE FallbackReply

\* store is the dict the global _disposal_rules holds (empty when it is None)
generate_chat_reply(user_message, last_class, last_name, store) ==
  LET msg == Lower(Strip(user_message))
  IN  IF IsGreeting(msg) THEN GreetingReply(last_name)
      ELSE IF IsThanks(msg) THEN ThanksReply
      ELSE IF IsIntro(msg) THEN IntroReply
      ELSE IF IsIrrelevant(msg) THEN IrrelevantReply
      ELSE IF IsWhatIsEwaste(msg) THEN WhatIsEwasteReply
      ELSE IF IsHazardQuestion(msg) THEN HazardReply
      ELSE IF IsDustbin(msg) THEN DustbinReply
      ELSE IF IsExamples(msg) THEN ExamplesReply
      ELSE IF IsCentre(msg) THEN CentreReply
      ELSE ContextOrFallback(msg, last_class, last_name, store)

(* ------------------------------------------------------------------ *)
(* HTTP responses                                                       *)
(* ------------------------------------------------------------------ *)
Json(status, body) == [status |-> status, body |-> body]
ErrorJson(status, text) == Json(status, [error |-> text])
\* an exception that leaves a view: Flask answers 500
Unhandled(exc) == Json(500, [exception |-> exc])
NoResp == Json(0, [none |-> TRUE])

(* ------------------------------------------------------------------ *)
(* /analyze                                                             *)
(* ------------------------------------------------------------------ *)
\* scores are hundredths: 0.6 is 60
CONFIDENCE_THRESHOLD == 60

build_maps_link(lat, lng) ==
  IF lat # None /\ lng # None
  THEN << "https://www.google.com/maps/search/e-waste+recycling+centre/@",
          lat, ",", lng, ",14z" >>
  ELSE << "https://www.google.com/maps/search/e-waste+recycling+centre+near+me" >>

\* np.argmax: the first index (from 0) of the largest score
argmax(preds) ==
  (CHOOSE i \in 1..Len(preds) :
      /\ \A j \in 1..Len(preds) : preds[j] <= preds[i]
      /\ \A j \in 1..(i - 1) : preds[j] < preds[i]) - 1

UncertainSteps ==
  << "I am not fully confident about this item.",
     "If it is an electrical or electronic product, please avoid throwing it in normal dustbin.",
     "Take it to an authorised e-waste collection centre for guidance." >>

\* IsUncertain without the "Unknown" test
IsUncertain_confidence_only(confidence, class_name) ==
  confidence < CONFIDENCE_THRESHOLD

\* IsUncertain with <= for <
IsUncertain_at_threshold(confidence, class_name) ==
  confidence <= CONFIDENCE_THRESHOLD \/ class_name = "Unknown"

\* `confidence < CONFIDENCE_THRESHOLD or class_name == "Unknown"`
IsUncertain(confidence, class_name) ==
  confidence < CONFIDENCE_THRESHOLD \/ class_name = "Unknown"

\* the decision of analyze once preds is known (lines 100-139); ix and dr
\* are the globals _index_to_class and _disposal_rules.  Using a global
\* that is None raises AttributeError, which the view's except clause
\* turns into a 500 answer.
Recommendation(preds, lat, lng, ix, dr) ==
  LET best_idx   == argmax(preds)
      confidence == preds[best_idx + 1]
      class_name == Get(class_indices_json, ToString(best_idx), "Unknown")
      maps_link  == build_maps_link(lat, lng)
      rules      == Get(RulesOf(dr), class_name, EmptyDict)
  IN  IF ix = Null
      THEN ErrorJson(500, "'NoneType' object has no attribute 'get'")
      ELSE IF IsUncertain(confidence, class_name)
      THEN Json(200,
             [ product_name           |-> "Uncertain item",
               predicted_class        |-> class_name,
               confidence             |-> confidence,
               category               |-> "Possibly E-waste",
               disposal_steps         |-> UncertainSteps,
               hazards                |-> "Electronic items may contain hazardous materials.",
               tips                   |-> "Show this item to staff at a recycling centre.",
               nearest_recycling_link |-> maps_link ])
      ELSE IF dr = Null
      THEN ErrorJson(500, "'NoneType' object has no attribute 'get'")
      ELSE Json(200,
             [ product_name           |-> Get(rules, "display_name", class_name),
               predicted_class        |-> class_name,
               confidence             |-> confidence,
               category               |-> Get(rules, "category", "E-waste"),
               disposal_steps         |-> Get(rules, "disposal_steps", <<>>),
               hazards                |-> Get(rules, "hazards", ""),
               tips                   |-> Get(rules, "tips", ""),
               nearest_recycling_link |-> maps_link ])

\* the view after load_assets(); m, ix, dr are the globals _model,
\* _index_to_class and _disposal_rules as the view finds them
analyze(r, m, ix, dr) ==
  IF ~r.has_image THEN ErrorJson(400, "No image uploaded")
  ELSE IF r.filename = "" THEN ErrorJson(400, "Empty filename")
  ELSE IF ~r.decodable THEN ErrorJson(500, "cannot identify image file")
  ELSE IF m = Null THEN ErrorJson(500, "'NoneType' object has no attribute 'predict'")
  ELSE Recommendation(r.preds, r.lat, r.lng, ix, dr)

(* ------------------------------------------------------------------ *)
(* /chat                                                                *)
(* ------------------------------------------------------------------ *)
\* the view after load_assets()
chat(r, dr) ==
  LET message == Strip(r.message)
  IN  IF message = <<>> THEN ErrorJson(400, "Empty message")
      ELSE Json(200, [reply |-> generate_chat_reply(message, r.last_class,
                                                    r.last_name, RulesOf(dr))])

\* GET /
home == Json(200, [template |-> "index.html"])

(* ------------------------------------------------------------------ *)
(* Requests                                                             *)
(* ------------------------------------------------------------------ *)
\* words the generated chat messages are made of
Vocabulary ==
  { <<"H","e","l","l","o">>, <<"t","h","i","s">>,
     <<"t","h","a","n","k","s">>, <<"m","o","v","i","e">>,
     <<"w","h","a","t">>, <<"e"," ","w","a","s","t","e">>,
     <<"w","h","y">>, <<"e","-","w","a","s","t","e">>,
     <<"h","a","r","m","f","u","l">>, <<"d","u","s","t","b","i","n">>,
     <<"d","i","s","p","o","s","e">>, <<"b","a","t","t","e","r","y">>,
     <<"o","k">> }

\* the questions the specification and the replies themselves give as examples,
\* an empty and a blank message, one with surrounding blanks, and questions
\* for the phrases the vocabulary cannot form
ExampleMessages ==
  { <<"H","o","w"," ","d","o"," ","I"," ","t","h","r","o","w"," ","a","w","a","y"," ","t","h","i","s"," ","i","t","e","m","?">>, <<"H","o","w"," ","t","o"," ","d","i","s","p","o","s","e"," ","t","h","i","s"," ","i","t","e","m","?">>,
     <<"I","s"," ","i","t"," ","s","a","f","e"," ","t","o"," ","t","h","r","o","w"," ","t","h","i","s"," ","i","n"," ","t","h","e"," ","d","u","s","t","b","i","n","?">>, <<"W","h","y"," ","i","s"," ","e","-","w","a","s","t","e"," ","d","a","n","g","e","r","o","u","s","?">>,
     <<>>, <<" "," ">>,
     <<" ","w","h","a","t"," ","i","t","e","m"," "," ">>, <<"w","h","o"," ","a","r","e"," ","y","o","u">>,
     <<"W","h","a","t"," ","c","a","n"," ","y","o","u"," ","d","o"," ","a","b","o","u","t"," ","a"," ","m","o","v","i","e">>, <<"w","h","a","t"," ","i","s"," ","e","-","w","a","s","t","e">>,
     <<"e","x","a","m","p","l","e","s"," ","o","f"," ","e","-","w","a","s","t","e">>, <<"t","y","p","e","s"," ","o","f"," ","e","-","w","a","s","t","e"," ","i","n"," ","t","h","e"," ","d","u","s","t","b","i","n">>,
     <<"r","e","c","y","c","l","i","n","g"," ","c","e","n","t","r","e"," ","f","o","r"," ","a"," ","b","a","t","t","e","r","y">>, <<"w","h","e","r","e"," ","t","o"," ","g","i","v","e"," ","e","-","w","a","s","t","e"," ","i","t","e","m","s">>,
     <<"w","h","a","t"," ","p","r","o","d","u","c","t">>, <<"i","s"," ","e","-","w","a","s","t","e"," ","b","a","d">>,
     <<"g","e","t"," ","r","i","d"," ","o","f"," ","t","h","e"," ","t","v">>, <<"H","e","l","l","o",","," ","h","o","w"," ","d","o"," ","I"," ","d","i","s","p","o","s","e"," ","o","f"," ","a"," ","m","o","v","i","e"," ","d","i","s","c","?">>,
     <<"t","h","a","n","k","s",","," ","i","s"," ","t","h","e"," ","m","o","v","i","e"," ","p","l","a","y","e","r"," ","s","a","f","e">>, <<"w","h","y"," ","r","e","c","y","c","l","e"," ","e","-","w","a","s","t","e">> }

RECURSIVE Phrases(_)
\* the messages of at most n vocabulary words, joined by single blanks
Phrases(n) ==
  IF n <= 1 THEN Vocabulary
  ELSE LET P == Phrases(n - 1)
       IN  P \cup { p \o <<" ">> \o w : p \in P, w \in Vocabulary }

Messages == ExampleMessages \cup Phrases(MaxWords)

\* (last_class, last_name) as the caller sends them: absent, empty, keys of
\* the rule store with and without a name, and a label the store does not have
Contexts ==
  { << None, None >>, << None, "Smartphone" >>, << "", None >>,
    << "battery", None >>, << "battery", "Smartphone" >>, << "mobile", "" >>,
    << "cable", None >>, << "fridge", None >>, << "fridge", "Smartphone" >> }

ChatRequests ==
  { [ kind |-> "chat", message |-> m, last_class |-> c[1], last_name |-> c[2] ] :
      m \in Messages, c \in Contexts }

\* classifier scores in hundredths, around the threshold
Scores == { 5, 42, 59, 60, 91 }
PredsVectors == [ 1..NumClasses -> Scores ]
\* (lat, lng) of the form: both absent, one absent, both given
Coordinates == { << None, None >>, << "12.97", None >>, << "12.97", "77.59" >> }
SamplePreds == [ i \in 1..NumClasses |-> IF i = 1 THEN 91 ELSE 5 ]

AnalyzeRequests ==
  { [ kind |-> "analyze", has_image |-> TRUE, filename |-> "item.jpg",
      decodable |-> TRUE, lat |-> c[1], lng |-> c[2], preds |-> p ] :
      c \in Coordinates, p \in PredsVectors }
  \cup
  [ kind : {"analyze"}, has_image : BOOLEAN, filename : {"", "item.jpg"},
    decodable : BOOLEAN, lat : {None}, lng : {None}, preds : {SamplePreds} ]

HomeRequest == [ kind |-> "home" ]
NoReq == [ kind |-> "none" ]

\* the requests of the concurrent server runs: one of each route
ServerRequests ==
  { HomeRequest,
    [ kind |-> "analyze", has_image |-> TRUE, filename |-> "item.jpg",
      decodable |-> TRUE, lat |-> None, lng |-> None, preds |-> SamplePreds ],
    [ kind |-> "chat", message |-> <<"d","i","s","p","o","s","e">>,
      last_class |-> "battery", last_name |-> None ] }

(* ------------------------------------------------------------------ *)
(* State                                                                *)
(* ------------------------------------------------------------------ *)
VARIABLES
  files,             \* which asset files exist on disk
  _model,            \* the three module globals: Null, or a reference to
  _index_to_class,   \*   the object a load created (named by the loading
  _disposal_rules,   \*   thread: each load creates a fresh object)
  pc,                \* where each request thread is
  req,               \* the request a thread is handling
  resp               \* the response a thread has produced

vars == << files, _model, _index_to_class, _disposal_rules, pc, req, resp >>
globals == << _model, _index_to_class, _disposal_rules >>

AssetFiles == { "MODEL_PATH", "CLASS_INDICES_PATH", "DISPOSAL_RULES_PATH" }

\* module import and app.run(): nothing is loaded, no request is in progress;
\* the files may or may not be there yet
Init ==
  /\ files \in [ AssetFiles -> BOOLEAN ]
  /\ _model = Null
  /\ _index_to_class = Null
  /\ _disposal_rules = Null
  /\ pc = [ t \in Threads |-> "idle" ]
  /\ req = [ t \in Threads |-> NoReq ]
  /\ resp = [ t \in Threads |-> NoResp ]

\* the same, on a machine where the three files are in place
InitReady == Init /\ \A f \in AssetFiles : files[f]

(* ------------------------------------------------------------------ *)
(* Steps of a request                                                   *)
(* ------------------------------------------------------------------ *)
\* thread t leaves with response x
Finish(t, x) ==
  /\ pc' = [ pc EXCEPT ![t] = "done" ]
  /\ resp' = [ resp EXCEPT ![t] = x ]

Goto(t, label) ==
  /\ pc' = [ pc EXCEPT ![t] = label ]
  /\ resp' = resp

\* load_assets raising RuntimeError out of the view
RaiseRuntimeError(t, text) == Finish(t, Unhandled(text))

\* Flask hands one of the requests to the free thread t; /analyze and /chat
\* begin with load_assets()
Accept(t, requests) ==
  /\ pc[t] = "idle"
  /\ \E r \in requests :
       /\ req' = [ req EXCEPT ![t] = r ]
       /\ Goto(t, IF r.kind = "home" THEN "view" ELSE "load_model")
  /\ UNCHANGED << files, globals >>

\* LoadModelCheck that goes on without the model when the file is missing
LoadModelCheck_skip_missing(t) ==
  /\ pc[t] = "load_model"
  /\ IF _model = Null /\ files["MODEL_PATH"]
     THEN Goto(t, "set_model")
     ELSE Goto(t, "load_index")
  /\ UNCHANGED << files, globals, req >>

\* load_assets, `if _model is None:` with the os.path.exists test
LoadModelCheck(t) ==
  /\ pc[t] = "load_model"
  /\ IF _model = Null
     THEN IF ~files["MODEL_PATH"]
          THEN RaiseRuntimeError(t, "RuntimeError: Model file not found")
          ELSE Goto(t, "set_model")
     ELSE Goto(t, "load_index")
  /\ UNCHANGED << files, globals, req >>

\* `_model = load_model(MODEL_PATH)`
LoadModelAssign(t) ==
  /\ pc[t] = "set_model"
  /\ _model' = t
  /\ Goto(t, "load_index")
  /\ UNCHANGED << files, _index_to_class, _disposal_rules, req >>

\* `if _index_to_class is None:`
LoadIndexCheck(t) ==
  /\ pc[t] = "load_index"
  /\ IF _index_to_class = Null
     THEN IF ~files["CLASS_INDICES_PATH"]
          THEN RaiseRuntimeError(t, "RuntimeError: class_indices.json not found")
          ELSE Goto(t, "set_index")
     ELSE Goto(t, "load_rules")
  /\ UNCHANGED << files, globals, req >>

\* `_index_to_class = json.load(f)`
LoadIndexAssign(t) ==
  /\ pc[t] = "set_index"
  /\ _index_to_class' = t
  /\ Goto(t, "load_rules")
  /\ UNCHANGED << files, _model, _disposal_rules, req >>

\* LoadRulesCheck with the test inverted (`is not None`)
LoadRulesCheck_inverted(t) ==
  /\ pc[t] = "load_rules"
  /\ IF _disposal_rules # Null
     THEN IF ~files["DISPOSAL_RULES_PATH"]
          THEN RaiseRuntimeError(t, "RuntimeError: disposal_rules.json not found")
          ELSE Goto(t, "set_rules")
     ELSE Goto(t, "view")
  /\ UNCHANGED << files, globals, req >>

\* `if _disposal_rules is None:`
LoadRulesCheck(t) ==
  /\ pc[t] = "load_rules"
  /\ IF _disposal_rules = Null
     THEN IF ~files["DISPOSAL_RULES_PATH"]
          THEN RaiseRuntimeError(t, "RuntimeError: disposal_rules.json not found")
          ELSE Goto(t, "set_rules")
     ELSE Goto(t, "view")
  /\ UNCHANGED << files, globals, req >>

\* `_disposal_rules = json.load(f)`; load_assets returns
LoadRulesAssign(t) ==
  /\ pc[t] = "set_rules"
  /\ _disposal_rules' = t
  /\ Goto(t, "view")
  /\ UNCHANGED << files, _model, _index_to_class, req >>

\* the rest of analyze(), after load_assets()
AnalyzeView(t) ==
  /\ pc[t] = "view"
  /\ req[t].kind = "analyze"
  /\ Finish(t, analyze(req[t], _model, _index_to_class, _disposal_rules))
  /\ UNCHANGED << files, globals, req >>

\* the rest of chat(), after load_assets()
ChatView(t) ==
  /\ pc[t] = "view"
  /\ req[t].kind = "chat"
  /\ Finish(t, chat(req[t], _disposal_rules))
  /\ UNCHANGED << files, globals, req >>

\* home()
HomeView(t) ==
  /\ pc[t] = "view"
  /\ req[t].kind = "home"
  /\ Finish(t, home)
  /\ UNCHANGED << files, globals, req >>

\* the response is sent and the thread is free again
Respond(t) ==
  /\ pc[t] = "done"
  /\ pc' = [ pc EXCEPT ![t] = "idle" ]
  /\ req' = [ req EXCEPT ![t] = NoReq ]
  /\ resp' = [ resp EXCEPT ![t] = NoResp ]
  /\ UNCHANGED << files, globals >>

\* outside the server: the training script or the operator puts a file in place
CreateFile(f) ==
  /\ ~files[f]
  /\ files' = [ files EXCEPT ![f] = TRUE ]
  /\ UNCHANGED << globals, pc, req, resp >>

\* load_assets and the response, for thread t
LoadAndRespond(t) ==
  \/ LoadModelCheck(t) \/ LoadModelAssign(t)
  \/ LoadIndexCheck(t) \/ LoadIndexAssign(t)
  \/ LoadRulesCheck(t) \/ LoadRulesAssign(t)
  \/ Respond(t)

(* ------------------------------------------------------------------ *)
(* Specifications                                                       *)
(* ------------------------------------------------------------------ *)
\* the threaded server: requests of all routes, interleaved step by step
Next ==
  \/ \E t \in Threads :
       \/ Accept(t, ServerRequests)
       \/ LoadAndRespond(t)
       \/ AnalyzeView(t) \/ ChatView(t) \/ HomeView(t)
  \/ \E f \in AssetFiles : CreateFile(f)

Spec == Init /\ [][Next]_vars

\* generate_chat_reply over all messages and contexts: /chat requests, one at a time
NextChat ==
  \/ Accept(1, ChatRequests)
  \/ LoadAndRespond(1)
  \/ ChatView(1)

SpecChat == InitReady /\ [][NextChat]_vars

\* the classification decision over all score vectors: /analyze requests, one at a time
NextAnalyze ==
  \/ Accept(1, AnalyzeRequests)
  \/ LoadAndRespond(1)
  \/ AnalyzeView(1)

SpecAnalyze == InitReady /\ [][NextAnalyze]_vars

(* ------------------------------------------------------------------ *)
(* Properties: helpers                                                  *)
(* ------------------------------------------------------------------ *)
\* thread t has answered a /chat request with a reply
ChatDone(t) == pc[t] = "done" /\ req[t].kind = "chat" /\ resp[t].status = 200
ReplyOf(t) == resp[t].body.reply
\* the message as generate_chat_reply matches it
MsgOf(t) == Lower(Strip(req[t].message))

\* thread t has answered an /analyze request whose image was read
AnalyzeDone(t) ==
  /\ pc[t] = "done" /\ req[t].kind = "analyze"
  /\ req[t].has_image /\ req[t].filename # "" /\ req[t].decodable

\* the largest score of a vector, and the label of the first class that has it
TopConfidence(preds) ==
  CHOOSE v \in { preds[i] : i \in 1..Len(preds) } :
    \A j \in 1..Len(preds) : preds[j] <= v
TopIndex(preds) ==
  CHOOSE i \in 1..Len(preds) :
    preds[i] = TopConfidence(preds)
    /\ \A j \in 1..Len(preds) : preds[j] = TopConfidence(preds) => i <= j
TopLabel(preds) ==
  IF ToString(TopIndex(preds) - 1) \in DOMAIN class_indices_json
  THEN class_indices_json[ToString(TopIndex(preds) - 1)]
  ELSE "Unknown"

\* the replies of the context branch begin with one of these fragments
IsContextReply(reply) ==
  Head(reply) \in { "For <b>", "<b>", "This item was detected as <b>",
                    "You are asking about <b>" }

\* a message holds one of the words the context branch answers
HasContextKeyword(msg) ==
  AnyIn(msg, DisposeWords) \/ AnyIn(msg, SafetyWords) \/ AnyIn(msg, WhatIsThisPhrases)

\* the message matches one of the rules 1 to 9
MatchesFaq(msg) ==
  \/ IsGreeting(msg) \/ IsThanks(msg) \/ IsIntro(msg) \/ IsIrrelevant(msg)
  \/ IsWhatIsEwaste(msg) \/ IsHazardQuestion(msg) \/ IsDustbin(msg)
  \/ IsExamples(msg) \/ IsCentre(msg)

\* the predicate of category k of the cascade
CategoryHolds(k, msg, last_class) ==
  CASE k = 1 -> IsGreeting(msg)
    [] k = 2 -> IsThanks(msg)
    [] k = 3 -> IsIntro(msg)
    [] k = 4 -> IsIrrelevant(msg)
    [] k = 5 -> IsWhatIsEwaste(msg)
    [] k = 6 -> IsHazardQuestion(msg)
    [] k = 7 -> IsDustbin(msg)
    [] k = 8 -> IsExamples(msg)
    [] k = 9 -> IsCentre(msg)
    [] k = 10 -> HasContext(last_class, disposal_rules_json)
    [] k = 11 -> IsRelated(msg)
    [] OTHER -> TRUE

\* the category a reply belongs to, read off the reply
CategoryOf(reply) ==
  CASE Head(reply) \in { "Hello! I recently detected <b>", Head(GreetingReply(None)) } -> 1
    [] reply = ThanksReply -> 2
    [] reply = IntroReply -> 3
    [] reply = IrrelevantReply -> 4
    [] reply = WhatIsEwasteReply -> 5
    [] reply = HazardReply -> 6
    [] reply = DustbinReply -> 7
    [] reply = ExamplesReply -> 8
    [] reply = CentreReply -> 9
    [] IsContextReply(reply) -> 10
    [] reply = RelatedReply -> 11
    [] reply = FallbackReply -> 12
    [] OTHER -> 0

HowDoIThrowAway == <<"h","o","w"," ","d","o"," ","i"," ","t","h","r","o","w"," ","a","w","a","y"," ","t","h","i","s"," ","i","t","e","m","?">>
kw_movie == <<"m","o","v","i","e">>

(* ------------------------------------------------------------------ *)
(* Properties of generate_chat_reply (SpecChat)                         *)
(* ------------------------------------------------------------------ *)
\* C1: the question "How do I throw away this item?" asked about a remembered
\* item of the rule store is answered with every disposal step of that item,
\* in order, as list items, and with the item's hazards text.
C1_ExampleQuestionGetsDisposalSteps ==
  \A t \in Threads :
    (ChatDone(t) /\ MsgOf(t) = HowDoIThrowAway
       /\ req[t].last_class \in DOMAIN disposal_rules_json)
    => LET rule == disposal_rules_json[req[t].last_class]
       IN  /\ Contains(ReplyOf(t), ListItems(rule.disposal_steps))
           /\ rule.hazards # "" =>
                \E i \in 1..Len(ReplyOf(t)) : ReplyOf(t)[i] = rule.hazards

\* C2 as stated: a message with an off-topic keyword and a context keyword,
\* sent with a last_class of the rule store, always gets the off-topic refusal.
C2_OffTopicAlwaysRefused ==
  \A t \in Threads :
    (ChatDone(t) /\ IsIrrelevant(MsgOf(t)) /\ HasContextKeyword(MsgOf(t))
       /\ req[t].last_class \in DOMAIN disposal_rules_json)
    => ReplyOf(t) = IrrelevantReply

\* C2 amended: such a message never gets a reply of the context branch, and it
\* gets the off-topic refusal unless it is also a greeting, a thanks/farewell
\* or a self-description question (rules 1 to 3), which come first.
C2_OffTopicBeforeContext ==
  \A t \in Threads :
    (ChatDone(t) /\ IsIrrelevant(MsgOf(t))
       /\ HasContextKeyword(MsgOf(t))
       /\ req[t].last_class \in DOMAIN disposal_rules_json)
    => /\ ~IsContextReply(ReplyOf(t))
       /\ (~IsGreeting(MsgOf(t)) /\ ~IsThanks(MsgOf(t)) /\ ~IsIntro(MsgOf(t)))
            => ReplyOf(t) = IrrelevantReply

\* "movie dispose"-like message about a remembered item was refused as off-topic
C2_Witness ==
  \E t \in Threads :
    /\ ChatDone(t) /\ Contains(MsgOf(t), kw_movie) /\ HasContextKeyword(MsgOf(t))
    /\ req[t].last_class \in DOMAIN disposal_rules_json
    /\ ~IsGreeting(MsgOf(t))
    /\ ReplyOf(t) = IrrelevantReply

\* C3: a reply of the context branch is given only for a non-empty last_class
\* that is a key of the rule store; a request whose last_class is supplied but
\* is no key of the store is answered (nothing is raised), and when its message
\* matches none of the rules 1 to 9 the answer is the loosely-related prompt or
\* the terminal fallback.
C3_ContextNeedsKnownClass ==
  \A t \in Threads :
    (pc[t] = "done" /\ req[t].kind = "chat" /\ Strip(req[t].message) # <<>>)
    => /\ resp[t].status = 200
       /\ IsContextReply(ReplyOf(t))
            => (Truthy(req[t].last_class)
                /\ req[t].last_class \in DOMAIN disposal_rules_json)
       /\ (req[t].last_class # None
           /\ req[t].last_class \notin DOMAIN disposal_rules_json
           /\ ~MatchesFaq(MsgOf(t)))
            => ReplyOf(t) \in { RelatedReply, FallbackReply }

\* an unknown last_class was sent with a message of rule 11, and one of rule 12
C3_Witness ==
  \E t \in Threads :
    /\ ChatDone(t) /\ req[t].last_class = "fridge" /\ ~MatchesFaq(MsgOf(t))
    /\ HasContextKeyword(MsgOf(t))
    /\ ReplyOf(t) = FallbackReply

\* C8: the reply is the reply of the lowest-numbered category whose predicate
\* holds for the message and the context.
C8_FirstMatchWins ==
  \A t \in Threads :
    ChatDone(t)
    => LET k == CategoryOf(ReplyOf(t))
       IN  /\ k \in 1..12
           /\ CategoryHolds(k, MsgOf(t), req[t].last_class)
           /\ \A j \in 1..(k - 1) : ~CategoryHolds(j, MsgOf(t), req[t].last_class)

\* a message of both category 7 and category 8 about a remembered item got
\* the reply of category 7
C8_Witness ==
  \E t \in Threads :
    /\ ChatDone(t) /\ IsDustbin(MsgOf(t)) /\ IsExamples(MsgOf(t))
    /\ IsRelated(MsgOf(t))
    /\ ReplyOf(t) = DustbinReply

\* C9 as stated: the hazard explanation is given only to messages that mention
\* e-waste and hold a danger word.
C9_HazardOnlyWithDangerWord ==
  \A t \in Threads :
    (ChatDone(t) /\ ReplyOf(t) = HazardReply)
    => (Contains(MsgOf(t), kw_ewaste) /\ AnyIn(MsgOf(t), DangerWords))

\* C9 amended: the hazard explanation is given only to messages that mention
\* e-waste and hold "why" or a danger word.
C9_HazardOnlyWithWhyOrDangerWord ==
  \A t \in Threads :
    (ChatDone(t) /\ ReplyOf(t) = HazardReply)
    => /\ Contains(MsgOf(t), kw_ewaste)
       /\ (Contains(MsgOf(t), kw_why) \/ AnyIn(MsgOf(t), DangerWords))

\* the hazard explanation was given to a "why" question without a danger word
C9_Witness ==
  \E t \in Threads :
    /\ ChatDone(t) /\ ReplyOf(t) = HazardReply
    /\ Contains(MsgOf(t), kw_why) /\ ~AnyIn(MsgOf(t), DangerWords)

(* ------------------------------------------------------------------ *)
(* Properties of the classification decision (SpecAnalyze)              *)
(* ------------------------------------------------------------------ *)
\* C4: when the top confidence is below the threshold, or the top label
\* resolves to "Unknown" at any confidence, the answer is the fixed uncertain
\* recommendation (category "Possibly E-waste", the three fixed steps, the
\* fixed hazards and tips) carrying the predicted label and its confidence.
C4_UncertainRecommendation ==
  \A t \in Threads :
    (AnalyzeDone(t)
       /\ (TopConfidence(req[t].preds) < CONFIDENCE_THRESHOLD
           \/ TopLabel(req[t].preds) = "Unknown"))
    => /\ resp[t].status = 200
       /\ resp[t].body.product_name = "Uncertain item"
       /\ resp[t].body.category = "Possibly E-waste"
       /\ resp[t].body.disposal_steps = UncertainSteps
       /\ Len(resp[t].body.disposal_steps) = 3
       /\ resp[t].body.hazards = "Electronic items may contain hazardous materials."
       /\ resp[t].body.tips = "Show this item to staff at a recycling centre."
       /\ resp[t].body.predicted_class = TopLabel(req[t].preds)
       /\ resp[t].body.confidence = TopConfidence(req[t].preds)

\* a confident score for a class the index file does not name was answered
C4_Witness ==
  \E t \in Threads :
    /\ AnalyzeDone(t)
    /\ TopConfidence(req[t].preds) >= CONFIDENCE_THRESHOLD
    /\ TopLabel(req[t].preds) = "Unknown"
    /\ resp[t].body.category = "Possibly E-waste"

\* C5: when the top confidence is at or above the threshold and the top label
\* has a rule, category, disposal_steps, hazards and tips are that rule's
\* fields and predicted_class and confidence are the top label and its score.
C5_RuleRecommendation ==
  \A t \in Threads :
    (AnalyzeDone(t)
       /\ TopConfidence(req[t].preds) >= CONFIDENCE_THRESHOLD
       /\ TopLabel(req[t].preds) \in DOMAIN disposal_rules_json)
    => LET rule == disposal_rules_json[TopLabel(req[t].preds)]
       IN  /\ resp[t].status = 200
           /\ resp[t].body.category = rule.category
           /\ resp[t].body.disposal_steps = rule.disposal_steps
           /\ resp[t].body.hazards = rule.hazards
           /\ resp[t].body.tips = rule.tips
           /\ resp[t].body.predicted_class = TopLabel(req[t].preds)
           /\ resp[t].body.confidence = TopConfidence(req[t].preds)

\* a battery scored exactly at the threshold was answered with the battery rule
C5_Witness ==
  \E t \in Threads :
    /\ AnalyzeDone(t)
    /\ TopConfidence(req[t].preds) = CONFIDENCE_THRESHOLD
    /\ TopLabel(req[t].preds) = "battery"
    /\ resp[t].body.disposal_steps = disposal_rules_json["battery"].disposal_steps

(* ------------------------------------------------------------------ *)
(* Properties of the server and its assets (Spec)                       *)
(* ------------------------------------------------------------------ *)
ConfigErrors ==
  { Unhandled("RuntimeError: Model file not found"),
    Unhandled("RuntimeError: class_indices.json not found"),
    Unhandled("RuntimeError: disposal_rules.json not found") }

UsesAssets(t) == req[t].kind \in { "analyze", "chat" }

\* C6 as stated: no request is accepted or answered while the model file or
\* the rules file is missing, and the configuration error is never the
\* outcome of handling a request.
C6_FatalAtStartup ==
  \A t \in Threads :
    /\ (pc[t] # "idle" /\ UsesAssets(t))
         => (files["MODEL_PATH"] /\ files["DISPOSAL_RULES_PATH"])
    /\ resp[t] \notin ConfigErrors

\* C6 amended: the server accepts requests whatever files exist; an /analyze
\* or /chat request that finds the model (or the rule store) unloaded and its
\* file missing ends in load_assets with the configuration error, and a
\* request of these routes that ends otherwise found all three assets loaded.
C6_FatalPerRequest ==
  /\ [][ \A t \in Threads :
           /\ (pc[t] = "load_model" /\ _model = Null /\ ~files["MODEL_PATH"]
                 /\ pc'[t] # pc[t])
                => (pc'[t] = "done"
                    /\ resp'[t] = Unhandled("RuntimeError: Model file not found"))
           /\ (pc[t] = "load_rules" /\ _disposal_rules = Null
                 /\ ~files["DISPOSAL_RULES_PATH"] /\ pc'[t] # pc[t])
                => (pc'[t] = "done"
                    /\ resp'[t] = Unhandled("RuntimeError: disposal_rules.json not found"))
       ]_vars
  /\ [](\A t \in Threads :
          (pc[t] = "done" /\ UsesAssets(t) /\ resp[t] \notin ConfigErrors)
          => (_model # Null /\ _index_to_class # Null /\ _disposal_rules # Null))

\* a /chat request was accepted without the model file and ended with the
\* configuration error
C6_Witness ==
  \E t \in Threads :
    /\ pc[t] = "done" /\ req[t].kind = "chat"
    /\ ~files["MODEL_PATH"] /\ _model = Null
    /\ resp[t] = Unhandled("RuntimeError: Model file not found")

\* C7: once _disposal_rules holds a rule store, no step assigns it again.
C7_RulesWrittenOnce ==
  [][ _disposal_rules # Null => _disposal_rules' = _disposal_rules ]_vars

\* C10: where load_assets has returned (the view runs), all three assets are
\* loaded, and a loaded asset is never reset to None.
C10_ViewsRunLoaded ==
  /\ [](\A t \in Threads :
          (pc[t] = "view" /\ UsesAssets(t))
          => (_model # Null /\ _index_to_class # Null /\ _disposal_rules # Null))
  /\ [][ /\ _model # Null => _model' # Null
         /\ _index_to_class # Null => _index_to_class' # Null
         /\ _disposal_rules # Null => _disposal_rules' # Null ]_vars

\* two threads are in their views at once, one of them having loaded nothing itself
C10_Witness ==
  \E t, u \in Threads :
    /\ t # u
    /\ pc[t] = "view" /\ req[t].kind = "chat"
    /\ pc[u] = "view" /\ req[u].kind = "analyze"
    /\ _model # t /\ _index_to_class # t /\ _disposal_rules # t
====
